---------------------------- MODULE Spec2Model ----------------------------
(***************************************************************************)
(* Model of the recurring-charge analysis scripts budget_analysis.py and   *)
(* ai.py: header resolution, description normalisation, per-account        *)
(* accumulation, fuzzy clustering (difflib.get_close_matches) and the      *)
(* cross-account merge.                                                    *)
(*                                                                         *)
(* Python strings are modelled as sequences of one-character strings,      *)
(* money as integer cents, a dict as the sequence of its items in          *)
(* insertion order, and a similarity ratio as the exact fraction num/den.  *)
(***************************************************************************)
EXTENDS Integers, Sequences, FiniteSets, TLC

VARIABLES
    script,      \* which script runs: "budget_analysis" or "ai"
    pc,          \* position of main / process_account
    acct,        \* index of the account main is at
    headers,     \* reader.fieldnames of the open file
    desc_col,    \* process_account locals: resolved columns
    amt_col,
    cat_col,
    grouped,     \* process_account: the defaultdict, in insertion order
    consumed,    \* rows the accumulation loop has iterated over so far
    all_rows,    \* main: rows returned by the accounts processed so far
    reports,     \* files written by write_csv, in the order written
    merged_all,  \* main: result of merge_rows
    account_merged, \* the mapping `merged` of each process_account call that returned
    gsd,         \* frame of a group_similar_descriptions call run step by step
    call         \* a call of a pure function: its name, arguments and result

vars == <<script, pc, acct, headers, desc_col, amt_col, cat_col, grouped,
          consumed, all_rows, reports, merged_all, account_merged, gsd, call>>

pipeVars == <<script, pc, acct, headers, desc_col, amt_col, cat_col, grouped,
              consumed, all_rows, reports, merged_all, account_merged>>

-----------------------------------------------------------------------------
(* Python values *)

\* Python's None (a cell of a short row, a column that was not found).
None == <<"None">>

\* The category placeholder.
NA == <<"N","/","A">>

Range(s) == { s[i] : i \in 1..Len(s) }

Min(a, b) == IF a <= b THEN a ELSE b

LowerLetters == <<"a","b","c","d","e","f","g","h","i","j","k","l","m",
                  "n","o","p","q","r","s","t","u","v","w","x","y","z">>

UpperLetters == <<"A","B","C","D","E","F","G","H","I","J","K","L","M",
                  "N","O","P","Q","R","S","T","U","V","W","X","Y","Z">>

Digits == <<"0","1","2","3","4","5","6","7","8","9">>

IndexOf(seq, c) == CHOOSE i \in 1..Len(seq) : seq[i] = c

IsLower(c) == c \in Range(LowerLetters)
IsUpper(c) == c \in Range(UpperLetters)
IsDigit(c) == c \in Range(Digits)
IsSpace(c) == c \in {" ", "\t"}
\* regex \w
IsWord(c) == IsLower(c) \/ IsUpper(c) \/ IsDigit(c) \/ c = "_"

\* str.upper() and str.lower(), character by character.
Upper(c) == IF IsLower(c) THEN UpperLetters[IndexOf(LowerLetters, c)] ELSE c
Lower(c) == IF IsUpper(c) THEN LowerLetters[IndexOf(UpperLetters, c)] ELSE c
StrUpper(s) == [i \in 1..Len(s) |-> Upper(s[i])]
StrLower(s) == [i \in 1..Len(s) |-> Lower(s[i])]

\* str.strip(): drop leading and trailing whitespace.
RECURSIVE LStrip(_)
LStrip(s) == IF s # <<>> /\ IsSpace(Head(s)) THEN LStrip(Tail(s)) ELSE s

RECURSIVE RStrip(_)
RStrip(s) ==
    IF s # <<>> /\ IsSpace(s[Len(s)]) THEN RStrip(SubSeq(s, 1, Len(s) - 1)) ELSE s

Strip(s) == RStrip(LStrip(s))

\* `c in h`: c occurs in h as a contiguous substring.
IsSubstring(c, h) ==
    \E i \in 0..(Len(h) - Len(c)) : SubSeq(h, i + 1, i + Len(c)) = c

\* str.replace(ch, ""): drop every occurrence of the character ch.
RemoveChar(s, ch) == SelectSeq(s, LAMBDA x : x # ch)

\* Code point order of the characters the model uses (ASCII).
AsciiOrder == <<"\t", " ", "$", "*", "+", ",", "-", ".", "/">> \o Digits
                  \o UpperLetters \o <<"_">> \o LowerLetters

Ord(c) == IndexOf(AsciiOrder, c)

\* Python's a < b on strings: by code point, a proper prefix being smaller.
RECURSIVE StrLess(_, _)
StrLess(a, b) ==
    IF b = <<>> THEN FALSE
    ELSE IF a = <<>> THEN TRUE
    ELSE IF Head(a) = Head(b) THEN StrLess(Tail(a), Tail(b))
    ELSE Ord(Head(a)) < Ord(Head(b))

-----------------------------------------------------------------------------
(* normalize_description *)

\* End of the maximal run of \w characters that starts at position p
\* (p - 1 when s[p] is not a word character).
RECURSIVE WordRunEnd(_, _)
WordRunEnd(s, p) ==
    IF p <= Len(s) /\ IsWord(s[p]) THEN WordRunEnd(s, p + 1) ELSE p - 1

\* End of the maximal run of digits that starts at position p.
RECURSIVE DigitRunEnd(_, _)
DigitRunEnd(s, p) ==
    IF p <= Len(s) /\ IsDigit(s[p]) THEN DigitRunEnd(s, p + 1) ELSE p - 1

\* re.sub(r'\*\d+', '', s): only the digits that directly follow the `*`
\* are deleted with it.
RECURSIVE SubStarDigits(_, _)
SubStarDigits(s, p) ==
    IF p > Len(s) THEN <<>>
    ELSE IF s[p] = "*" /\ DigitRunEnd(s, p + 1) > p
         THEN SubStarDigits(s, DigitRunEnd(s, p + 1) + 1)
         ELSE <<s[p]>> \o SubStarDigits(s, p + 1)

\* re.sub(r'\*\w*\d\w*', '', s), scanning from position p: a `*` followed by
\* a run of word characters holding a digit is deleted with the whole run.
RECURSIVE SubStarCodes(_, _)
SubStarCodes(s, p) ==
    IF p > Len(s) THEN <<>>
    ELSE LET e == WordRunEnd(s, p + 1)
         IN  IF s[p] = "*" /\ \E q \in (p + 1)..e : IsDigit(s[q])
             THEN SubStarCodes(s, e + 1)
             ELSE <<s[p]>> \o SubStarCodes(s, p + 1)

\* re.sub(r'[^A-Z\s]', ' ', s)
SubPunctuation(s) ==
    [i \in 1..Len(s) |-> IF IsUpper(s[i]) \/ IsSpace(s[i]) THEN s[i] ELSE " "]

\* re.sub(r'\s+', ' ', s): every run of whitespace becomes one space.
RECURSIVE CollapseSpaces(_)
CollapseSpaces(s) ==
    IF s = <<>> THEN <<>>
    ELSE IF IsSpace(Head(s))
         THEN <<" ">> \o CollapseSpaces(LStrip(s))
         ELSE <<Head(s)>> \o CollapseSpaces(Tail(s))

\* normalize_description with the whitespace collapsed before the punctuation
\* is replaced instead of after.
normalize_collapse_first(desc) ==
    Strip(SubPunctuation(CollapseSpaces(SubStarCodes(StrUpper(desc), 1))))

normalize_description(desc) ==
    Strip(CollapseSpaces(SubPunctuation(SubStarCodes(StrUpper(desc), 1))))

-----------------------------------------------------------------------------
(* Floats: an amount is a number of cents, nan or an infinity. *)

Num(c) == [kind |-> "num", cents |-> c]
NaN == [kind |-> "nan", cents |-> 0]
Inf(sign) == [kind |-> "inf", cents |-> sign]
\* The ValueError float() raises.
ParseError == [kind |-> "error", cents |-> 0]

\* x >= 0 on floats: False for nan.
FloatGE0(x) == x.kind # "nan" /\ x.cents >= 0

\* abs(x)
FloatAbs(x) ==
    IF x.kind = "nan" THEN NaN
    ELSE [kind |-> x.kind, cents |-> IF x.cents < 0 THEN -x.cents ELSE x.cents]

\* x + y
FloatAdd(x, y) ==
    IF x.kind = "nan" \/ y.kind = "nan" THEN NaN
    ELSE IF x.kind = "inf" /\ y.kind = "inf"
         THEN IF x.cents = y.cents THEN x ELSE NaN
    ELSE IF x.kind = "inf" THEN x
    ELSE IF y.kind = "inf" THEN y
    ELSE Num(x.cents + y.cents)

RECURSIVE DigitsValue(_)
DigitsValue(ds) ==
    IF ds = <<>> THEN 0
    ELSE 10 * DigitsValue(SubSeq(ds, 1, Len(ds) - 1))
         + (IndexOf(Digits, ds[Len(ds)]) - 1)

\* float(s) for the spellings without exponent or digit separators:
\* surrounding whitespace is ignored, then an optional sign, then nan, inf,
\* infinity (in any case) or digits with at most one point.  Amounts carry
\* at most two decimals, so the value is a whole number of cents.
float_parse(s) ==
    LET t      == Strip(s)
        signed == t # <<>> /\ t[1] \in {"+", "-"}
        sign   == IF signed /\ t[1] = "-" THEN -1 ELSE 1
        body   == IF signed THEN Tail(t) ELSE t
        word   == StrLower(body)
        dots   == { i \in 1..Len(body) : body[i] = "." }
        dot    == IF dots = {} THEN Len(body) + 1 ELSE CHOOSE i \in dots : TRUE
        whole  == SubSeq(body, 1, dot - 1)
        frac   == SubSeq(body, dot + 1, Min(Len(body), dot + 2))
        frac2  == frac \o SubSeq(<<"0", "0">>, 1, 2 - Len(frac))
    IN  IF word = <<"n","a","n">> THEN NaN
        ELSE IF word \in {<<"i","n","f">>, <<"i","n","f","i","n","i","t","y">>}
             THEN Inf(sign)
        ELSE IF /\ \A i \in 1..Len(body) : IsDigit(body[i]) \/ body[i] = "."
                /\ Cardinality(dots) <= 1
                /\ \E i \in 1..Len(body) : IsDigit(body[i])
             THEN Num(sign * (100 * DigitsValue(whole) + DigitsValue(frac2)))
        ELSE ParseError

-----------------------------------------------------------------------------
(* difflib.SequenceMatcher and difflib.get_close_matches, as called by      *)
(* group_similar_descriptions.  Positions are 1-based and ranges inclusive. *)
(* No character is junk: isjunk is None and the automatic junk heuristic    *)
(* only applies to a second sequence of 200 characters or more.             *)

\* Length of the common run of a and b that starts at a[i], b[j] and stays
\* within a[..ahi], b[..bhi].
RECURSIVE CommonRun(_, _, _, _, _, _)
CommonRun(a, b, i, j, ahi, bhi) ==
    IF i <= ahi /\ j <= bhi /\ a[i] = b[j]
    THEN 1 + CommonRun(a, b, i + 1, j + 1, ahi, bhi)
    ELSE 0

\* The choice find_longest_match makes among the blocks: runs[<<i, j>>] is
\* the length of the common run starting at a[i], b[j].  The longest run
\* wins; of the longest the one starting earliest in a, and of those the one
\* starting earliest in b.  Without any match the result is (alo, blo, 0).
PickLongest(runs, alo, blo) ==
    LET pairs   == DOMAIN runs
        best    == IF pairs = {} THEN 0
                   ELSE CHOOSE k \in { runs[p] : p \in pairs } :
                            \A p \in pairs : runs[p] <= k
        longest == { p \in pairs : runs[p] = best }
        i0      == CHOOSE i \in { p[1] : p \in longest } :
                       \A p \in longest : i <= p[1]
        j0      == CHOOSE j \in { p[2] : p \in { q \in longest : q[1] = i0 } } :
                       \A p \in { q \in longest : q[1] = i0 } : j <= p[2]
    IN  IF best = 0 THEN [i |-> alo, j |-> blo, k |-> 0]
        ELSE [i |-> i0, j |-> j0, k |-> best]

\* SequenceMatcher.find_longest_match on a[alo..ahi], b[blo..bhi].
find_longest_match(a, b, alo, ahi, blo, bhi) ==
    PickLongest([p \in (alo..ahi) \X (blo..bhi) |->
                    CommonRun(a, b, p[1], p[2], ahi, bhi)],
                alo, blo)

\* SequenceMatcher.get_matching_blocks, summed: the longest block m, then
\* the same again to its left and to its right.
RECURSIVE matching_size(_, _, _, _, _, _)
RECURSIVE matching_split(_, _, _, _, _, _, _)
matching_split(a, b, alo, ahi, blo, bhi, m) ==
    IF m.k = 0 THEN 0
    ELSE m.k
         + matching_size(a, b, alo, m.i - 1, blo, m.j - 1)
         + matching_size(a, b, m.i + m.k, ahi, m.j + m.k, bhi)

matching_size(a, b, alo, ahi, blo, bhi) ==
    IF alo > ahi \/ blo > bhi THEN 0
    ELSE matching_split(a, b, alo, ahi, blo, bhi,
                        find_longest_match(a, b, alo, ahi, blo, bhi))

\* difflib._calculate_ratio(matches, length): 2.0 * matches / length, and
\* 1.0 when both sequences are empty.
calculate_ratio(matches, length) ==
    IF length = 0 THEN [num |-> 1, den |-> 1]
    ELSE [num |-> 2 * matches, den |-> length]

\* The matches related to the length of the first sequence alone.
ratio_first_length(a, b) ==
    calculate_ratio(matching_size(a, b, 1, Len(a), 1, Len(b)), 2 * Len(a))

\* SequenceMatcher(None, a, b).ratio()
ratio(a, b) ==
    calculate_ratio(matching_size(a, b, 1, Len(a), 1, Len(b)), Len(a) + Len(b))

Count(s, c) == Cardinality({ i \in 1..Len(s) : s[i] = c })

RECURSIVE SumMin(_, _, _)
SumMin(cs, a, b) ==
    IF cs = {} THEN 0
    ELSE LET c == CHOOSE x \in cs : TRUE
         IN  Min(Count(a, c), Count(b, c)) + SumMin(cs \ {c}, a, b)

\* SequenceMatcher.quick_ratio(): an upper bound from the characters the two
\* sequences share, whatever their order.
quick_ratio(a, b) ==
    calculate_ratio(SumMin(Range(a) \cap Range(b), a, b), Len(a) + Len(b))

\* SequenceMatcher.real_quick_ratio(): an upper bound from the lengths alone.
real_quick_ratio(a, b) ==
    calculate_ratio(Min(Len(a), Len(b)), Len(a) + Len(b))

\* r >= c, r < s and r = s on fractions with positive denominators.
RatioGE(r, c) == r.num * c.den >= c.num * r.den
RatioLess(r, s) == r.num * s.den < s.num * r.den
RatioEq(r, s) == r.num * s.den = s.num * r.den

\* The (score, x) tuples get_close_matches collects: x among the
\* possibilities, the first sequence being x and the second the word.
CloseCandidates(word, possibilities, cutoff) ==
    { x \in possibilities :
        /\ RatioGE(real_quick_ratio(x, word), cutoff)
        /\ RatioGE(quick_ratio(x, word), cutoff)
        /\ RatioGE(ratio(x, word), cutoff) }

\* Python's tuple order (rx, x) < (ry, y): by score, then by the string.
ScoredLess(rx, x, ry, y) ==
    RatioLess(rx, ry) \/ (RatioEq(rx, ry) /\ StrLess(x, y))

TupleLess(word, x, y) == ScoredLess(ratio(x, word), x, ratio(y, word), y)

\* The best score, and of the keys that tie for it the smallest string.
MaxScoredSmallest(word, result) ==
    IF result = {} THEN <<>>
    ELSE <<CHOOSE x \in result :
               \A y \in result : y # x =>
                   \/ RatioLess(ratio(y, word), ratio(x, word))
                   \/ RatioEq(ratio(y, word), ratio(x, word)) /\ StrLess(x, y)>>

\* max() of the (score, x) tuples of the candidates.
MaxScored(word, result) ==
    IF result = {} THEN <<>>
    ELSE <<CHOOSE x \in result :
               \A y \in result : y # x => TupleLess(word, y, x)>>

\* get_close_matches(word, possibilities, n=1, cutoff): heapq.nlargest(1, ..)
\* is max() over the (score, x) tuples; the result is [] or [x].
get_close_matches(word, possibilities, cutoff) ==
    MaxScored(word, CloseCandidates(word, possibilities, cutoff))

-----------------------------------------------------------------------------
(* group_similar_descriptions *)

\* A dict of dicts is a heap of stats objects {count, total, category} and
\* the sequence of its items [key, ref] in insertion order, ref being the
\* index of the item's stats object in the heap.

Keys(d) == { d[i].key : i \in 1..Len(d) }
RefOf(d, key) == d[CHOOSE i \in 1..Len(d) : d[i].key = key].ref

\* merged[desc] = stats, without the copy: the same object.
stats_alias(heap, ref) == [heap |-> heap, ref |-> ref]

\* stats.copy(): a new object with the same fields.
stats_copy(heap, ref) ==
    [heap |-> Append(heap, heap[ref]), ref |-> Len(heap) + 1]

\* The branch taken on a match: merged[key] gets the counts and totals of
\* stats, and its category when it has none.  t is the object of merged[key],
\* ref the object of stats.
merge_stats(heap, t, ref) ==
    LET h1 == [heap EXCEPT ![t].count = @ + heap[ref].count]
        h2 == [h1 EXCEPT ![t].total = FloatAdd(@, h1[ref].total)]
    IN  IF h2[t].category = NA /\ h2[ref].category # NA
        THEN [h2 EXCEPT ![t].category = h2[ref].category]
        ELSE h2

\* The loop body with the `else:` missing: a key without a match is inserted
\* and then the branch of a match runs on it, with key = desc.
group_apply_no_else(st, item, match) ==
    IF match # <<>>
    THEN [heap   |-> merge_stats(st.heap, RefOf(st.merged, match[1]), item.ref),
          merged |-> st.merged,
          match  |-> match]
    ELSE [heap   |-> merge_stats(stats_copy(st.heap, item.ref).heap,
                                 stats_copy(st.heap, item.ref).ref, item.ref),
          merged |-> Append(st.merged,
                            [key |-> item.key,
                             ref |-> stats_copy(st.heap, item.ref).ref]),
          match  |-> match]

\* The body of the loop once match is known, on the frame
\* st = [heap, merged, match] with the item [key, ref] of grouped.
group_apply(st, item, match) ==
    IF match # <<>>
    THEN [heap   |-> merge_stats(st.heap, RefOf(st.merged, match[1]), item.ref),
          merged |-> st.merged,
          match  |-> match]
    ELSE [heap   |-> stats_copy(st.heap, item.ref).heap,
          merged |-> Append(st.merged,
                            [key |-> item.key,
                             ref |-> stats_copy(st.heap, item.ref).ref]),
          match  |-> match]

\* One iteration of the loop over grouped.items().
group_step(st, item, cutoff) ==
    group_apply(st, item, get_close_matches(item.key, Keys(st.merged), cutoff))

RECURSIVE group_loop(_, _, _, _)
group_loop(st, grouped_items, i, cutoff) ==
    IF i > Len(grouped_items) THEN st
    ELSE group_loop(group_step(st, grouped_items[i], cutoff),
                    grouped_items, i + 1, cutoff)

\* group_similar_descriptions(grouped, cutoff): the heap after the call and
\* the dict it returns.
group_similar_descriptions(heap, grouped_items, cutoff) ==
    group_loop([heap |-> heap, merged |-> <<>>, match |-> <<>>],
               grouped_items, 1, cutoff)

\* A mapping passed by value: the sequence of [key, count, total, category].
Alloc(mapping) ==
    [heap |-> [i \in 1..Len(mapping) |->
                  [count    |-> mapping[i].count,
                   total    |-> mapping[i].total,
                   category |-> mapping[i].category]],
     dict |-> [i \in 1..Len(mapping) |-> [key |-> mapping[i].key, ref |-> i]]]

Deref(heap, d) ==
    [i \in 1..Len(d) |->
        [key      |-> d[i].key,
         count    |-> heap[d[i].ref].count,
         total    |-> heap[d[i].ref].total,
         category |-> heap[d[i].ref].category]]

GroupAllocated(a, cutoff) == group_similar_descriptions(a.heap, a.dict, cutoff)
DerefResult(r) == Deref(r.heap, r.merged)

\* The mapping group_similar_descriptions returns for the mapping given.
Clustered(mapping, cutoff) == DerefResult(GroupAllocated(Alloc(mapping), cutoff))

\* The default cutoff=0.85 of group_similar_descriptions and merge_rows.
DefaultCutoff == [num |-> 17, den |-> 20]

-----------------------------------------------------------------------------
(* read_csv_dynamic and find_column *)

\* A row of csv.DictReader is a function from the file's headers to cells;
\* the fields a short row lacks are None.

Candidates_desc == << <<"d","e","s","c">> >>
Candidates_amt == << <<"a","m","o","u","n","t">>, <<"a","m","t">> >>
Candidates_cat == << <<"c","a","t","e","g","o","r","y">>, <<"c","a","t">> >>

\* The headers whose lower-cased text holds one of the candidate keywords.
MatchingHeaders(hs, candidates) ==
    { i \in 1..Len(hs) :
        \E j \in 1..Len(candidates) : IsSubstring(candidates[j], StrLower(hs[i])) }

\* budget_analysis.find_column: the first matching header, or None.
find_column(hs, candidates) ==
    LET m == MatchingHeaders(hs, candidates)
    IN  IF m = {} THEN None
        ELSE hs[CHOOSE i \in m : \A j \in m : i <= j]

\* The ValueError ai.find_column raises when no header matches.
ValueError == <<"ValueError">>

\* ai.find_column: the first matching header, or the ValueError.
find_column_ai(hs, candidates) ==
    LET m == MatchingHeaders(hs, candidates)
    IN  IF m = {} THEN ValueError
        ELSE hs[CHOOSE i \in m : \A j \in m : i <= j]

-----------------------------------------------------------------------------
(* process_account: the accumulation loop *)

\* A mapping is the sequence of its items [key, count, total, category].
MapKeys(m) == { m[i].key : i \in 1..Len(m) }
MapIndex(m, key) == CHOOSE i \in 1..Len(m) : m[i].key = key

\* row[desc_col].strip() raises KeyError when the column was not found and
\* AttributeError when the cell is None; nothing catches either.
DescRaises(row, dcol) == dcol \notin DOMAIN row \/ row[dcol] = None

\* float(row[amt_col].replace(",", "").replace("$", "")); the bare except
\* turns KeyError, AttributeError and ValueError alike into ParseError.
parse_amount(row, acol) ==
    IF acol \notin DOMAIN row \/ row[acol] = None THEN ParseError
    ELSE float_parse(RemoveChar(RemoveChar(row[acol], ","), "$"))

\* row[cat_col].strip() if cat_col != "N/A" and row.get(cat_col) else "N/A"
row_category(row, ccol) ==
    IF ccol # NA /\ ccol \in DOMAIN row /\ row[ccol] # None /\ row[ccol] # <<>>
    THEN Strip(row[ccol])
    ELSE NA

\* The row is skipped: its amount does not parse, or amt >= 0.
RowSkipped(row, acol) ==
    LET amt == parse_amount(row, acol)
    IN  amt.kind = "error" \/ FloatGE0(amt)

\* grouped[keyword], with the defaultdict's default on a new key.
WithDefault(m, key) ==
    IF key \in MapKeys(m) THEN m
    ELSE Append(m, [key |-> key, count |-> 0, total |-> Num(0), category |-> NA])

\* The body of the loop for a row that neither raises nor is skipped.
accumulate(m, row, dcol, acol, ccol) ==
    LET desc_raw == Strip(row[dcol])
        amt      == FloatAbs(parse_amount(row, acol))
        category == row_category(row, ccol)
        keyword  == normalize_description(desc_raw)
        g        == WithDefault(m, keyword)
        i        == MapIndex(g, keyword)
    IN  [g EXCEPT ![i] =
            [key      |-> keyword,
             count    |-> @.count + 1,
             total    |-> FloatAdd(@.total, amt),
             category |-> IF @.category = NA THEN category ELSE @.category]]

-----------------------------------------------------------------------------
(* write_csv, process_account's return value, merge_rows *)

\* sorted(items, key=lambda x: x[0]): insertion sort on the keys.
RECURSIVE InsertByKey(_, _)
InsertByKey(sorted_items, e) ==
    IF sorted_items = <<>> THEN <<e>>
    ELSE IF StrLess(e.key, Head(sorted_items).key)
         THEN <<e>> \o sorted_items
         ELSE <<Head(sorted_items)>> \o InsertByKey(Tail(sorted_items), e)

RECURSIVE SortByKey(_)
SortByKey(m) ==
    IF m = <<>> THEN <<>>
    ELSE InsertByKey(SortByKey(SubSeq(m, 1, Len(m) - 1)), m[Len(m)])

\* write_csv: the data rows written, sorted by description, the buckets with
\* count <= 1 left out.  A row holds the values before they are formatted
\* (the Monthly Average column is total / 12 of the same row).
write_csv(m) == SelectSeq(SortByKey(m), LAMBDA e : e.count > 1)

\* The rows process_account returns: the buckets of merged with count > 1,
\* in merged's order (avg_month, which merge_rows ignores, is total / 12).
account_rows(merged) == SelectSeq(merged, LAMBDA e : e.count > 1)

\* merge_rows: the loop folding the rows by exact description.
RECURSIVE fold_rows(_, _, _)
fold_rows(m, rows, i) ==
    IF i > Len(rows) THEN m
    ELSE LET r == rows[i]
         IN  IF r.key \notin MapKeys(m)
             THEN fold_rows(Append(m, r), rows, i + 1)
             ELSE LET k == MapIndex(m, r.key)
                  IN  fold_rows(
                        [m EXCEPT ![k] =
                            [key      |-> @.key,
                             count    |-> @.count + r.count,
                             total    |-> FloatAdd(@.total, r.total),
                             category |-> IF @.category = NA /\ r.category # NA
                                          THEN r.category ELSE @.category]],
                        rows, i + 1)

merge_rows(rows, cutoff) == Clustered(fold_rows(<<>>, rows, 1), cutoff)

-----------------------------------------------------------------------------
(* Bounds and inputs *)

\* Accounts in the files dict of main.
NumAccounts == 2
\* Data rows per input file.
MaxRows == 2

Scripts == {"budget_analysis", "ai"}

HDate == <<"D","a","t","e">>
HDescription == <<"D","e","s","c","r","i","p","t","i","o","n">>
HAmount == <<"A","m","o","u","n","t">>
HCategory == <<"C","a","t","e","g","o","r","y">>

\* The header lines of the input files: complete, and with the category,
\* the amount or the description column missing.
HeaderLists ==
    { <<HDate, HDescription, HAmount, HCategory>>,
      <<HDate, HDescription, HAmount>>,
      <<HDate, HDescription, HCategory>>,
      <<HDate, HAmount, HCategory>> }

Uber == <<"U","b","e","r">>
UberCode == <<" ","U","B","E","R","*","9","a">>
Gym == <<"g","y","m">>

Amt20 == <<"-","2","0",".","0","0">>
Amt15 == <<"-","$","1","5",".","0","0">>
AmtThousand == <<"-","1",",","0","0","0",".","5">>
AmtCredit == <<"5",".","0","0">>
AmtText == <<"n","/","a">>
AmtNan == <<"n","a","n">>

CatEmpty == <<>>
CatBlank == <<" ">>
CatFood == <<"F","o","o","d">>
CatFun == <<"F","u","n">>

Cells(d, a, c) == [desc |-> d, amt |-> a, cat |-> c]

\* The cell contents of the data rows.
RowCells ==
    { Cells(d, Amt20, CatEmpty) : d \in {Uber, UberCode, Gym} }
    \cup { Cells(Uber, a, CatEmpty) :
             a \in {Amt15, AmtThousand, AmtCredit, AmtText, AmtNan} }
    \cup { Cells(Uber, Amt20, c) : c \in {CatBlank, CatFood, CatFun} }

\* The DictReader row of a line with n fields under the headers hs.
MakeRow(hs, cells, n) ==
    [h \in Range(hs) |->
        IF IndexOf(hs, h) > n THEN None
        ELSE IF h = HDescription THEN cells.desc
        ELSE IF h = HAmount THEN cells.amt
        ELSE IF h = HCategory THEN cells.cat
        ELSE <<"1","/","2">>]

\* Complete lines, and lines cut short after one or two fields.
RowsOf(hs) ==
    { MakeRow(hs, c, Len(hs)) : c \in RowCells }
    \cup { MakeRow(hs, Cells(Uber, Amt20, CatFood), n) : n \in 1..2 }

IdleFrame ==
    [heap0 |-> <<>>, heap |-> <<>>, grouped |-> <<>>, cutoff |-> DefaultCutoff,
     i |-> 0, merged |-> <<>>, match |-> <<>>, pass |-> 0]

IdleCall == [fn |-> "none", args |-> <<>>, result |-> <<>>]

-----------------------------------------------------------------------------
(* main and process_account *)

Init ==
    /\ script \in Scripts
    /\ pc = "main"
    /\ acct = 1
    /\ headers = <<>>
    /\ desc_col = None
    /\ amt_col = None
    /\ cat_col = NA
    /\ grouped = <<>>
    /\ consumed = <<>>
    /\ all_rows = <<>>
    /\ reports = <<>>
    /\ merged_all = <<>>
    /\ account_merged = <<>>
    /\ gsd = IdleFrame
    /\ call = IdleCall

\* main: os.path.exists(path) is false, the account is skipped.
SkipMissingFile ==
    /\ pc = "main"
    /\ acct <= NumAccounts
    /\ acct' = acct + 1
    /\ UNCHANGED <<script, pc, headers, desc_col, amt_col, cat_col, grouped,
                   consumed, all_rows, reports, merged_all, account_merged,
                   gsd, call>>

\* process_account up to the loop: read_csv_dynamic and the find_column
\* calls.  ai.find_column raises on the first column it does not find, and
\* ai.py looks up no category column.
OpenAccount(hs) ==
    /\ pc = "main"
    /\ acct <= NumAccounts
    /\ headers' = hs
    /\ grouped' = <<>>
    /\ consumed' = <<>>
    /\ IF script = "budget_analysis"
       THEN /\ desc_col' = find_column(hs, Candidates_desc)
            /\ amt_col' = find_column(hs, Candidates_amt)
            /\ cat_col' = IF find_column(hs, Candidates_cat) = None THEN NA
                          ELSE find_column(hs, Candidates_cat)
            /\ pc' = "loop"
       ELSE /\ desc_col' = find_column_ai(hs, Candidates_desc)
            /\ amt_col' = IF desc_col' = ValueError THEN None
                          ELSE find_column_ai(hs, Candidates_amt)
            /\ cat_col' = NA
            /\ pc' = IF desc_col' = ValueError \/ amt_col' = ValueError
                     THEN "error" ELSE "loop"
    /\ UNCHANGED <<script, acct, all_rows, reports, merged_all, account_merged,
                   gsd, call>>

\* One iteration of `for row in transactions`.
AccumulateRow(row) ==
    /\ pc = "loop"
    /\ Len(consumed) < MaxRows
    /\ consumed' = Append(consumed, row)
    /\ IF DescRaises(row, desc_col)
       THEN pc' = "error" /\ grouped' = grouped
       ELSE /\ pc' = pc
            /\ grouped' = IF RowSkipped(row, amt_col) THEN grouped
                          ELSE accumulate(grouped, row, desc_col, amt_col, cat_col)
    /\ UNCHANGED <<script, acct, headers, desc_col, amt_col, cat_col, all_rows,
                   reports, merged_all, account_merged, gsd, call>>

\* The end of process_account: cluster, write the account's summary, and in
\* budget_analysis.py return the rows that main appends to all_rows.
FinishAccount ==
    /\ pc = "loop"
    /\ LET merged == Clustered(grouped, DefaultCutoff)
       IN  /\ reports' = Append(reports, [file |-> acct, rows |-> write_csv(merged)])
           /\ account_merged' = Append(account_merged, merged)
           /\ all_rows' = IF script = "budget_analysis"
                          THEN all_rows \o account_rows(merged)
                          ELSE all_rows
    /\ acct' = acct + 1
    /\ pc' = "main"
    /\ UNCHANGED <<script, headers, desc_col, amt_col, cat_col, grouped,
                   consumed, merged_all, gsd, call>>

\* budget_analysis.main after the loop: merge_rows, sort, write the combined
\* file (file 0).
MergeAll ==
    /\ pc = "main"
    /\ acct > NumAccounts
    /\ script = "budget_analysis"
    /\ merged_all' = merge_rows(all_rows, DefaultCutoff)
    /\ reports' = Append(reports,
                         [file |-> 0, rows |-> write_csv(SortByKey(merged_all'))])
    /\ pc' = "done"
    /\ UNCHANGED <<script, acct, headers, desc_col, amt_col, cat_col, grouped,
                   consumed, all_rows, account_merged, gsd, call>>

\* ai.main returns after its loop.
MainReturn ==
    /\ pc = "main"
    /\ acct > NumAccounts
    /\ script = "ai"
    /\ pc' = "done"
    /\ UNCHANGED <<script, acct, headers, desc_col, amt_col, cat_col, grouped,
                   consumed, all_rows, reports, merged_all, account_merged,
                   gsd, call>>

Next ==
    \/ SkipMissingFile
    \/ \E hs \in HeaderLists : OpenAccount(hs)
    \/ \E row \in RowsOf(headers) : AccumulateRow(row)
    \/ FinishAccount
    \/ MergeAll
    \/ MainReturn

Spec == Init /\ [][Next]_vars

-----------------------------------------------------------------------------
(* group_similar_descriptions run on its own, one loop iteration a step,    *)
(* and run a second time on its own result.                                 *)

\* Keys in the input mapping.
MaxKeys == 3

KeyEmpty == <<>>
KeyB == <<"B">>
KeyAB == <<"A","B">>
KeyBC == <<"B","C">>
KeyABC == <<"A","B","C">>
KeyABCD == <<"A","B","C","D">>

ClusterKeys == {KeyEmpty, KeyB, KeyAB, KeyBC, KeyABC, KeyABCD}

ClusterStats ==
    { [count |-> 1, total |-> Num(100), category |-> NA],
      [count |-> 2, total |-> Num(250), category |-> CatFood] }

\* The cutoffs 0, 0.6, 0.85 and 1.
Cutoffs ==
    { [num |-> 0, den |-> 1], [num |-> 3, den |-> 5], DefaultCutoff,
      [num |-> 1, den |-> 1] }

IsInjective(f) == \A i, j \in DOMAIN f : f[i] = f[j] => i = j

\* The mappings of at most MaxKeys distinct keys.
ClusterInputs ==
    UNION { { [i \in 1..n |->
                 [key      |-> ks[i],
                  count    |-> ss[i].count,
                  total    |-> ss[i].total,
                  category |-> ss[i].category]] :
              ks \in { f \in [1..n -> ClusterKeys] : IsInjective(f) },
              ss \in [1..n -> ClusterStats] } :
            n \in 0..MaxKeys }

\* The frame at the start of a call on the allocated mapping a.
StartFrame(a, cutoff, pass) ==
    [heap0 |-> a.heap, heap |-> a.heap, grouped |-> a.dict, cutoff |-> cutoff,
     i |-> 1, merged |-> <<>>, match |-> <<>>, pass |-> pass]

InitIdlePipeline(at) ==
    /\ script = "budget_analysis"
    /\ pc = at
    /\ acct = 0
    /\ headers = <<>>
    /\ desc_col = None
    /\ amt_col = None
    /\ cat_col = NA
    /\ grouped = <<>>
    /\ consumed = <<>>
    /\ all_rows = <<>>
    /\ reports = <<>>
    /\ merged_all = <<>>
    /\ account_merged = <<>>

InitCluster ==
    /\ InitIdlePipeline("gsd")
    /\ call = IdleCall
    /\ \E m \in ClusterInputs, c \in Cutoffs : gsd = StartFrame(Alloc(m), c, 1)

GsdReturned == gsd.i > Len(gsd.grouped)

\* One iteration of `for desc, stats in grouped.items()`.
GsdStep ==
    /\ pc = "gsd"
    /\ ~GsdReturned
    /\ LET st == group_step([heap |-> gsd.heap, merged |-> gsd.merged,
                             match |-> gsd.match],
                            gsd.grouped[gsd.i], gsd.cutoff)
       IN  gsd' = [gsd EXCEPT !.heap = st.heap, !.merged = st.merged,
                              !.match = st.match, !.i = @ + 1]
    /\ UNCHANGED <<pipeVars, call>>

\* The mapping returned is clustered again at the same cutoff, as merge_rows
\* does with the rows of process_account.
GsdAgain ==
    /\ pc = "gsd"
    /\ GsdReturned
    /\ gsd.pass = 1
    /\ gsd' = StartFrame([heap |-> gsd.heap, dict |-> gsd.merged], gsd.cutoff, 2)
    /\ UNCHANGED <<pipeVars, call>>

NextCluster == GsdStep \/ GsdAgain

SpecCluster == InitCluster /\ [][NextCluster]_vars

-----------------------------------------------------------------------------
(* normalize_description and SequenceMatcher.ratio called on their own *)

\* Length of a raw description.
MaxLen == 4
NormAlphabet == {"a", "B", "1", "*", ".", " ", "_"}

\* Length of a key given to ratio.
MaxKeyLen == 3
RatioAlphabet == {"A", "B", "C"}

Strings(alphabet, n) == UNION { [1..k -> alphabet] : k \in 0..n }

InitNorm ==
    /\ InitIdlePipeline("call")
    /\ gsd = IdleFrame
    /\ \E x \in Strings(NormAlphabet, MaxLen) :
           call = [fn |-> "none", args |-> <<x>>, result |-> <<>>]

CallNormalize ==
    /\ pc = "call"
    /\ call.fn = "none"
    /\ Len(call.args) = 1
    /\ call' = [call EXCEPT !.fn = "normalize_description",
                            !.result = normalize_description(call.args[1])]
    /\ UNCHANGED <<pipeVars, gsd>>

NextNorm == CallNormalize

SpecNorm == InitNorm /\ [][NextNorm]_vars

InitRatio ==
    /\ InitIdlePipeline("call")
    /\ gsd = IdleFrame
    /\ \E a \in Strings(RatioAlphabet, MaxKeyLen),
          b \in Strings(RatioAlphabet, MaxKeyLen) :
           call = [fn |-> "none", args |-> <<a, b>>, result |-> <<>>]

\* The score get_close_matches gives the accepted key a against the new key b.
CallRatio ==
    /\ pc = "call"
    /\ call.fn = "none"
    /\ Len(call.args) = 2
    /\ call' = [call EXCEPT !.fn = "ratio",
                            !.result = ratio(call.args[1], call.args[2])]
    /\ UNCHANGED <<pipeVars, gsd>>

NextRatio == CallRatio

SpecRatio == InitRatio /\ [][NextRatio]_vars

-----------------------------------------------------------------------------
(* Properties of normalize_description (SpecNorm) *)

NormInput == call.args[1]
Normalized == call.fn = "normalize_description"

IsLetter(c) == IsLower(c) \/ IsUpper(c)
LetterOnly(w) == w # <<>> /\ \A i \in 1..Len(w) : IsLetter(w[i])
\* A token of letters and digits with at least one of each.
MixedToken(t) ==
    /\ \A i \in 1..Len(t) : IsLetter(t[i]) \/ IsDigit(t[i])
    /\ \E i \in 1..Len(t) : IsLetter(t[i])
    /\ \E i \in 1..Len(t) : IsDigit(t[i])
LettersOf(x) == SelectSeq(x, IsLetter)
Before(x, i) == SubSeq(x, 1, i - 1)
After(x, i) == SubSeq(x, i + 1, Len(x))

\* C5: normalize_description is idempotent, normalising its own result
\* changes nothing, and an empty or whitespace-only description gives the
\* empty key.
C5_Idempotent ==
    Normalized =>
        /\ normalize_description(call.result) = call.result
        /\ (\A i \in 1..Len(NormInput) : IsSpace(NormInput[i])) => call.result = <<>>

\* C5 witness: a description with a `*` that the normaliser shortened to a
\* non-empty key.
C5_Witness ==
    /\ Normalized
    /\ "*" \in Range(NormInput)
    /\ call.result # <<>>
    /\ Len(call.result) < Len(NormInput)

Amazon == <<"A","M","A","Z","O","N">>
AmazonCode == Amazon \o <<"*","A","B","1","2","C","D">>
AmazonPrime == Amazon \o <<"*","P","R","I","M","E">>

\* The two examples of the specification.
C6_Examples ==
    /\ normalize_description(AmazonCode) = normalize_description(Amazon)
    /\ normalize_description(AmazonPrime) # normalize_description(Amazon)

\* A letter-only token survives in the key, also behind a `*`.
C6_LetterTokensSurvive ==
    \A i \in 1..Len(NormInput) :
        /\ NormInput[i] \in {"*", " "}
        /\ LetterOnly(Before(NormInput, i))
        /\ LetterOnly(After(NormInput, i))
        => call.result = StrUpper(Before(NormInput, i)) \o <<" ">>
                             \o StrUpper(After(NormInput, i))

\* C6 as claimed: a token mixing letters and digits is deleted entirely,
\* whether it follows a `*` or a space, so that W + "*" + T and W + " " + T
\* both normalise like W; letter-only tokens survive.
C6_Claim ==
    Normalized =>
        /\ C6_Examples
        /\ C6_LetterTokensSurvive
        /\ \A i \in 1..Len(NormInput) :
               /\ NormInput[i] \in {"*", " "}
               /\ LetterOnly(Before(NormInput, i))
               /\ MixedToken(After(NormInput, i))
               => call.result = normalize_description(Before(NormInput, i))

\* C6 amended: only a token that directly follows a `*` and holds a digit
\* is deleted entirely (with the `*`), so W + "*" + T normalises like W; a
\* mixed token that follows a space loses its digits only, all its letters
\* stay in the key, so W + " " + T does not normalise like W; letter-only
\* tokens survive.
C6_StarCodesOnly ==
    Normalized =>
        /\ C6_Examples
        /\ C6_LetterTokensSurvive
        /\ \A i \in 1..Len(NormInput) :
               /\ LetterOnly(Before(NormInput, i))
               /\ MixedToken(After(NormInput, i))
               => /\ NormInput[i] = "*"
                      => call.result = normalize_description(Before(NormInput, i))
                  /\ NormInput[i] = " "
                      => /\ LettersOf(call.result) =
                                StrUpper(Before(NormInput, i))
                                    \o StrUpper(LettersOf(After(NormInput, i)))
                         /\ call.result # normalize_description(Before(NormInput, i))

\* C6 witness: a word, a `*` and a token of a letter and a digit, normalised
\* to the word alone.
C6_Witness ==
    /\ Normalized
    /\ \E i \in 1..Len(NormInput) :
           /\ NormInput[i] = "*"
           /\ LetterOnly(Before(NormInput, i))
           /\ MixedToken(After(NormInput, i))
           /\ call.result = StrUpper(Before(NormInput, i))

-----------------------------------------------------------------------------
(* Properties of the similarity score (SpecRatio) *)

RatioA == call.args[1]
RatioB == call.args[2]
Scored == call.fn = "ratio"

\* C8 as claimed: the score is symmetric, score(a, b) = score(b, a).
C8_Claim == Scored => RatioEq(call.result, ratio(RatioB, RatioA))

\* C8 amended: the score of two keys is the same in both orders when one
\* key occurs in the other as a contiguous substring (then it is twice the
\* shorter length over the sum of the lengths) and when the keys share no
\* character (then it is 0); and it is 0 in one order exactly when it is 0
\* in the other.
C8_SymmetricCases ==
    Scored =>
        /\ IsSubstring(RatioA, RatioB) /\ RatioB # <<>>
              => /\ RatioEq(call.result, ratio(RatioB, RatioA))
                 /\ RatioEq(call.result,
                            [num |-> 2 * Len(RatioA),
                             den |-> Len(RatioA) + Len(RatioB)])
        /\ IsSubstring(RatioB, RatioA) /\ RatioA # <<>>
              => RatioEq(call.result, ratio(RatioB, RatioA))
        /\ Range(RatioA) \cap Range(RatioB) = {} /\ RatioA \o RatioB # <<>>
              => call.result.num = 0 /\ ratio(RatioB, RatioA).num = 0
        /\ call.result.num = 0 <=> ratio(RatioB, RatioA).num = 0

\* C8 witness: the score of a key against a longer key that contains it.
C8_Witness ==
    /\ Scored
    /\ RatioA # <<>>
    /\ Len(RatioA) < Len(RatioB)
    /\ IsSubstring(RatioA, RatioB)
    /\ call.result.num = 2 * Len(RatioA)

-----------------------------------------------------------------------------
(* Properties of group_similar_descriptions (SpecCluster) *)

KeySeq(d) == [j \in 1..Len(d) |-> d[j].key]
PosIn(d, key) == CHOOSE j \in 1..Len(d) : d[j].key = key

\* The key the last iteration processed, and the score of an accepted key
\* against it.
GsdWord == gsd.grouped[gsd.i - 1].key
Score(x) == ratio(x, GsdWord)

Stepped == pc = "gsd" /\ gsd.i > 1
Matched == Stepped /\ gsd.match # <<>>
Target == gsd.match[1]

\* The accepted keys no other accepted key outscores.
TopScorers ==
    { x \in Keys(gsd.merged) :
        \A y \in Keys(gsd.merged) : ~RatioLess(Score(x), Score(y)) }

\* A key is merged exactly when an accepted key scores at least the cutoff,
\* and then into a key with the highest score; otherwise it is accepted as
\* the last key of the result.
MergesIntoBest ==
    /\ Matched => /\ RatioGE(Score(Target), gsd.cutoff)
                  /\ Target \in TopScorers
                  /\ GsdWord \notin Keys(gsd.merged)
    /\ Stepped /\ gsd.match = <<>>
          => /\ gsd.merged[Len(gsd.merged)].key = GsdWord
             /\ \A x \in Keys(gsd.merged) \ {GsdWord} :
                    ~RatioGE(Score(x), gsd.cutoff)

\* C7 as claimed: among the accepted keys that tie for the highest score the
\* merge target is the one first in the result mapping's insertion order.
C7_Claim ==
    /\ MergesIntoBest
    /\ Matched =>
          \A x \in TopScorers : PosIn(gsd.merged, Target) <= PosIn(gsd.merged, x)

\* C7 amended: among the accepted keys that tie for the highest score the
\* merge target is the greatest in string order, wherever it stands in the
\* result mapping.
C7_TieGreatestKey ==
    /\ MergesIntoBest
    /\ Matched => \A x \in TopScorers \ {Target} : StrLess(x, Target)

\* C7 witness: a key merged into one of two accepted keys that tie for the
\* highest score, and not into the one accepted first.
C7_Witness ==
    /\ Matched
    /\ Cardinality(TopScorers) >= 2
    /\ \E x \in TopScorers : PosIn(gsd.merged, x) < PosIn(gsd.merged, Target)

RECURSIVE SumCount(_, _, _)
SumCount(heap, d, n) ==
    IF n = 0 THEN 0 ELSE heap[d[n].ref].count + SumCount(heap, d, n - 1)

RECURSIVE SumTotal(_, _, _)
SumTotal(heap, d, n) ==
    IF n = 0 THEN 0 ELSE heap[d[n].ref].total.cents + SumTotal(heap, d, n - 1)

\* a is b with some elements left out.
RECURSIVE IsSubsequence(_, _)
IsSubsequence(a, b) ==
    IF a = <<>> THEN TRUE
    ELSE IF b = <<>> THEN FALSE
    ELSE IF Head(a) = Head(b) THEN IsSubsequence(Tail(a), Tail(b))
    ELSE IsSubsequence(a, Tail(b))

\* C9: when group_similar_descriptions returns, the keys of the result are
\* distinct and a subsequence of the input keys that starts with the first
\* input key, the counts and the totals of the result add up to those of
\* the input, and no bucket of the input mapping has changed.
C9_Conserves ==
    pc = "gsd" /\ GsdReturned =>
        /\ IsSubsequence(KeySeq(gsd.merged), KeySeq(gsd.grouped))
        /\ IsInjective(KeySeq(gsd.merged))
        /\ gsd.grouped # <<>> =>
              gsd.merged # <<>> /\ gsd.merged[1].key = gsd.grouped[1].key
        /\ gsd.grouped = <<>> => gsd.merged = <<>>
        /\ SumCount(gsd.heap, gsd.merged, Len(gsd.merged))
              = SumCount(gsd.heap0, gsd.grouped, Len(gsd.grouped))
        /\ SumTotal(gsd.heap, gsd.merged, Len(gsd.merged))
              = SumTotal(gsd.heap0, gsd.grouped, Len(gsd.grouped))
        /\ \A j \in 1..Len(gsd.grouped) :
              gsd.heap[gsd.grouped[j].ref] = gsd.heap0[gsd.grouped[j].ref]

\* C9 witness: a call that returned two buckets for three input keys.
C9_Witness ==
    /\ pc = "gsd"
    /\ GsdReturned
    /\ gsd.pass = 1
    /\ Len(gsd.grouped) >= 3
    /\ Len(gsd.merged) = 2

\* C10: clustering the result of a clustering again at the same cutoff
\* returns it unchanged (keys, order, count, total, category); and merge_rows
\* on the rows of one account, clustered at 0.85, returns those rows.
C10_Idempotent ==
    pc = "gsd" /\ GsdReturned =>
        /\ gsd.pass = 2 =>
              Deref(gsd.heap, gsd.merged) = Deref(gsd.heap0, gsd.grouped)
        /\ gsd.pass = 1 /\ gsd.cutoff = DefaultCutoff =>
              merge_rows(account_rows(Deref(gsd.heap, gsd.merged)), DefaultCutoff)
                  = account_rows(Deref(gsd.heap, gsd.merged))

\* C10 witness: the second pass at 0.85 has returned, over a mapping of two
\* or more keys that the first pass had reduced.
C10_Witness ==
    /\ pc = "gsd"
    /\ GsdReturned
    /\ gsd.pass = 2
    /\ gsd.cutoff = DefaultCutoff
    /\ Len(gsd.grouped) >= 2
    /\ Len(gsd.heap0) > 2 * Len(gsd.grouped)

-----------------------------------------------------------------------------
(* Properties of main and process_account (Spec) *)

InPipeline == pc \in {"main", "loop", "done", "error"}

\* C1: when each of two accounts has exactly one charge for the key K, so
\* that each account's clustered mapping is the single bucket K with count 1,
\* the combined mapping is the bucket K with count 2 and the sum of the two
\* totals, and the combined report lists it.
C1_SingletonsReachMerge ==
    /\ script = "budget_analysis"
    /\ pc = "done"
    /\ Len(account_merged) = 2
    /\ \A a \in 1..2 : Len(account_merged[a]) = 1
                       /\ account_merged[a][1].count = 1
                       /\ account_merged[a][1].total.kind = "num"
    /\ account_merged[1][1].key = account_merged[2][1].key
    => /\ Len(merged_all) = 1
       /\ merged_all[1].key = account_merged[1][1].key
       /\ merged_all[1].count = 2
       /\ merged_all[1].total =
              FloatAdd(account_merged[1][1].total, account_merged[2][1].total)
       /\ \E r \in Range(reports) :
              /\ r.file = 0
              /\ \E j \in 1..Len(r.rows) :
                     r.rows[j].key = account_merged[1][1].key /\ r.rows[j].count = 2

\* The row is a charge: its description can be read and its amount parses
\* as a number strictly below 0.
IsCharge(row) ==
    /\ ~DescRaises(row, desc_col)
    /\ parse_amount(row, amt_col).kind = "num"
    /\ parse_amount(row, amt_col).cents < 0

KeyOfRow(row) == normalize_description(row[desc_col])

ChargesFor(key) ==
    { i \in 1..Len(consumed) : IsCharge(consumed[i]) /\ KeyOfRow(consumed[i]) = key }

RECURSIVE SumAbsCents(_)
SumAbsCents(is) ==
    IF is = {} THEN 0
    ELSE LET i == CHOOSE x \in is : TRUE
         IN  FloatAbs(parse_amount(consumed[i], amt_col)).cents
             + SumAbsCents(is \ {i})

\* C2: whatever rows the accumulation loop has consumed, every bucket counts
\* the consumed rows that are charges for its key and totals the absolute
\* values of their amounts, so its count is at least 1 and its total above
\* 0; and only charges create keys.
C2_AccumulatorInvariant ==
    InPipeline =>
        /\ \A j \in 1..Len(grouped) :
              /\ grouped[j].count = Cardinality(ChargesFor(grouped[j].key))
              /\ grouped[j].total = Num(SumAbsCents(ChargesFor(grouped[j].key)))
              /\ grouped[j].count >= 1
              /\ grouped[j].total.cents > 0
        /\ \A i \in 1..Len(consumed) :
              IsCharge(consumed[i]) => KeyOfRow(consumed[i]) \in MapKeys(grouped)

\* The accumulator invariant of C2 as long as no consumed amount is nan.
C2_WithoutNan ==
    (\A i \in 1..Len(consumed) : parse_amount(consumed[i], amt_col).kind # "nan")
        => C2_AccumulatorInvariant

\* The rows the loop counted for the key.
Contributing(key) ==
    { i \in 1..Len(consumed) :
        /\ ~DescRaises(consumed[i], desc_col)
        /\ ~RowSkipped(consumed[i], amt_col)
        /\ KeyOfRow(consumed[i]) = key }

\* The category cell is there and is neither empty nor whitespace only.
HasCategory(row) ==
    /\ cat_col # NA
    /\ cat_col \in DOMAIN row
    /\ row[cat_col] # None
    /\ Strip(row[cat_col]) # <<>>

\* C3: the category of a bucket is the category of the first contributing
\* row that has one (absent, empty and whitespace-only cells count as
\* empty), and the placeholder if no contributing row has one.
C3_FirstCategoryWins ==
    InPipeline =>
        \A j \in 1..Len(grouped) :
            LET with == { i \in Contributing(grouped[j].key) : HasCategory(consumed[i]) }
            IN  IF with = {} THEN grouped[j].category = NA
                ELSE grouped[j].category =
                        Strip(consumed[CHOOSE i \in with : \A k \in with : i <= k][cat_col])

\* C4: an account whose headers lack the description or the amount column
\* never gets past process_account: the call is in its loop or has raised.
C4_MissingColumnFatal ==
    /\ InPipeline
    /\ headers # <<>>
    /\ \/ find_column(headers, Candidates_desc) = None
       \/ find_column(headers, Candidates_amt) = None
    => pc \in {"loop", "error"}

=============================================================================
